---- MODULE Spec2Model ----
(***************************************************************************)
(* A model of the holocene-carbon contract: the custodian registry         *)
(* (custodian.rs), the token tracker (token.rs), the retirement book       *)
(* (retirement.rs) and the messages of the contract that compose them      *)
(* (lib.rs).  Every message is one atomic action: the contract runs one    *)
(* call at a time.  An operation that returns Err keeps the writes it made *)
(* before the return, as the Tracker's code does.                          *)
(*                                                                         *)
(* CarbonUnit is u64 in the source; the model keeps the width but scales   *)
(* it down: CarbonUnitMax stands for u64::MAX.  Block numbers, timestamps  *)
(* and custodian aliases are stamps no operation reads; they are left out. *)
(***************************************************************************)
EXTENDS Integers, Sequences, FiniteSets, TLC

\* ------------------------------------------------------------------ bounds
NumAccounts == 2
NumRegistryIds == 2
NumYears == 2
MaxMintRequests == 2
CarbonUnitMax == 3
MaxAmount == 2
MaxBundle == 2
MaxRetirements == 2

\* ------------------------------------------------------------- the domain
Blackhole == 0
Governor == 1

AccountIds == 0..NumAccounts
\* env().caller(): every account but the all-zero one, which nobody controls.
Callers == 1..NumAccounts
RegistryIds == 1..NumRegistryIds
Years == 1..NumYears
\* The amounts a caller passes: below u64::MAX, so that sums of two can fit.
Amounts == 0..MaxAmount
\* The ids a caller can name: those the mint requests can get, and one more.
TokenIds == 0..MaxMintRequests
\* The requests of the ledger runs (Spec): one registry reference, every
\* amount, year and beneficiary.
LedgerRegistryIds == {1}
MintRequestParams ==
    [registry_id : LedgerRegistryIds, verified_carbon_unit : Amounts,
     issuance_year : Years, beneficiary : AccountIds]
\* The requests of the mint workflow runs (SpecMint): every registry reference,
\* one amount, year and beneficiary.
WorkflowRequestParams ==
    [registry_id : RegistryIds, verified_carbon_unit : {1},
     issuance_year : {1}, beneficiary : {1}]
TokenEditionValues == [id : TokenIds, amount : Amounts]
\* The bundles a caller can pass to transfer_compounded.
Bundles == UNION {[1..n -> TokenEditionValues] : n \in 0..MaxBundle}
\* The bundles the transitions are taken with. What a bundle does to the
\* Tracker, a run of transfer_by_id calls does too, so the states reached are
\* those of all of Bundles; the properties range over all of Bundles.
CalledBundles == {b \in Bundles : \A i \in 1..Len(b) : b[i].amount = 1}
\* The accounts the governor is asked to admit or revoke.
CustodianCandidates == {NumAccounts}
\* The accounts the governor is asked to admit or revoke in the mint workflow
\* runs (SpecMint): every account that can call, the governor's own included.
WorkflowCustodianCandidates == Callers

VARIABLES
    custodians,       \* Wall.custodians: Collections.custodians, the admitted accounts
    tokens,           \* Wall.tokens: the Tracker
    retirements,      \* Wall.retirements: the Book
    issued_ids,       \* history: the edition ids handed to accepted requests, in order
    denied_ids,       \* history: the edition ids of the denied requests
    approved_amount   \* history: TokenId -> the verified amount it was approved with

historyVars == <<issued_ids, denied_ids, approved_amount>>
vars == <<custodians, tokens, retirements, historyVars>>

\* ------------------------------------------------- StorageHashMap helpers
EmptyMap == [k \in {} |-> 0]

\* StorageHashMap::insert
Insert(m, k, v) == [x \in (DOMAIN m) \cup {k} |-> IF x = k THEN v ELSE m[x]]

\* StorageHashMap::take
Take(m, k) == [x \in (DOMAIN m) \ {k} |-> m[x]]

\* The sum of f over its keys in S.
RECURSIVE SumOver(_, _)
SumOver(f, S) ==
    IF S = {} THEN 0
    ELSE LET k == CHOOSE x \in S : TRUE IN f[k] + SumOver(f, S \ {k})

\* The sum of the amounts of a list of TokenEdition.
RECURSIVE SumAmounts(_)
SumAmounts(editions) ==
    IF editions = <<>> THEN 0
    ELSE Head(editions).amount + SumAmounts(Tail(editions))

\* The elements of a sequence.
Range(s) == {s[i] : i \in 1..Len(s)}

\* A u64 accumulation `total += x` whose exact sum is s: exact while it fits;
\* past u64::MAX the build decides: with overflow checks the call panics,
\* without them the sum wraps.
U64Sum(s) ==
    IF s <= CarbonUnitMax THEN {[panic |-> FALSE, value |-> s]}
    ELSE {[panic |-> TRUE, value |-> 0],
          [panic |-> FALSE, value |-> s % (CarbonUnitMax + 1)]}

\* ------------------------------------------------------------ the Tracker
\* Tracker::default(). An Option is a set: {} is None, {x} is Some(x).
TrackerDefault ==
    [next_token_id |-> 0,
     last_minted_token_id |-> {},
     minted_editions |-> EmptyMap,
     pending_mint_editions |-> EmptyMap,
     balances |-> EmptyMap,
     year_mapping |-> EmptyMap]

\* Book::default()
BookDefault ==
    [next_retirement_id |-> 0,
     last_retirement_id |-> {},
     reports |-> EmptyMap,
     account_mapping |-> EmptyMap]

\* What a Tracker method hands back: its Result and the Tracker it leaves.
Outcome(result, t) == [result |-> result, tokens |-> t]

\* Mutant of TakeNextTokenId: the counter is read and never advanced.
TakeNextTokenId_NotAdvanced(t) == [id |-> t.next_token_id, next_token_id |-> t.next_token_id]

\* Tracker::take_next_token_id: the id handed out and the counter after it.
TakeNextTokenId(t) == [id |-> t.next_token_id, next_token_id |-> t.next_token_id + 1]

\* Mutant of InsertPendingMint: a registry reference that an edition already
\* carries is refused too (TokenAlreadyMinted), not only a pending one.
InsertPendingMint_RefusesMinted(t, minter, params) ==
    IF params.registry_id \in DOMAIN t.pending_mint_editions
    THEN Outcome("TokenMintRequestAlreadyPending", t)
    ELSE IF \E id \in DOMAIN t.minted_editions :
                t.minted_editions[id].registry_id = params.registry_id
    THEN Outcome("TokenAlreadyMinted", t)
    ELSE LET detail == [id |-> t.next_token_id,
                        registry_id |-> params.registry_id,
                        supply |-> params.verified_carbon_unit,
                        retired |-> 0,
                        year |-> params.issuance_year,
                        minter |-> minter]
         IN Outcome("Ok",
                [t EXCEPT !.next_token_id = @ + 1,
                          !.pending_mint_editions =
                              Insert(@, params.registry_id,
                                     [detail |-> detail, beneficiary |-> params.beneficiary])])

\* Tracker::insert_pending_mint
InsertPendingMint(t, minter, params) ==
    IF params.registry_id \in DOMAIN t.pending_mint_editions
    THEN Outcome("TokenMintRequestAlreadyPending", t)
    ELSE LET taken == TakeNextTokenId(t)
             detail == [id |-> taken.id,
                        registry_id |-> params.registry_id,
                        supply |-> params.verified_carbon_unit,
                        retired |-> 0,
                        year |-> params.issuance_year,
                        minter |-> minter]
         IN Outcome("Ok",
                [t EXCEPT !.next_token_id = taken.next_token_id,
                          !.pending_mint_editions =
                              Insert(@, params.registry_id,
                                     [detail |-> detail, beneficiary |-> params.beneficiary])])

\* Mutant of DenyPendingMint: the request is read (get) and not removed (take).
DenyPendingMint_KeepsRequest(t, registry_id) ==
    IF registry_id \notin DOMAIN t.pending_mint_editions
    THEN Outcome("TokenMintRequestNotFound", t)
    ELSE Outcome("Ok", t)

\* Mutant of DenyPendingMint: the denied request's id is given back to the
\* counter.
DenyPendingMint_RollsBack(t, registry_id) ==
    IF registry_id \notin DOMAIN t.pending_mint_editions
    THEN Outcome("TokenMintRequestNotFound", t)
    ELSE Outcome("Ok", [t EXCEPT !.pending_mint_editions = Take(@, registry_id),
                                 !.next_token_id = @ - 1])

\* Tracker::deny_pending_mint
DenyPendingMint(t, registry_id) ==
    IF registry_id \notin DOMAIN t.pending_mint_editions
    THEN Outcome("TokenMintRequestNotFound", t)
    ELSE Outcome("Ok", [t EXCEPT !.pending_mint_editions = Take(@, registry_id)])

\* balances.insert(account, new map) unless the account has a map already
WithBalanceMap(b, account) ==
    IF account \in DOMAIN b THEN b ELSE Insert(b, account, EmptyMap)

\* Mutant of ApprovePendingMint: the edition is not entered in its year's index.
ApprovePendingMint_NotIndexed(t, registry_id) ==
    IF registry_id \notin DOMAIN t.pending_mint_editions
    THEN Outcome("TokenMintRequestNotFound", t)
    ELSE LET entry == t.pending_mint_editions[registry_id]
             detail == entry.detail
             target_account_id == entry.beneficiary
             b1 == WithBalanceMap(t.balances, target_account_id)
         IN Outcome("Ok",
                [t EXCEPT !.pending_mint_editions = Take(@, registry_id),
                          !.minted_editions = Insert(@, detail.id, detail),
                          !.balances =
                              [b1 EXCEPT ![target_account_id] =
                                  Insert(@, detail.id, detail.supply)],
                          !.last_minted_token_id = {detail.id}])

\* Tracker::approve_pending_mint
ApprovePendingMint(t, registry_id) ==
    IF registry_id \notin DOMAIN t.pending_mint_editions
    THEN Outcome("TokenMintRequestNotFound", t)
    ELSE LET entry == t.pending_mint_editions[registry_id]
             detail == entry.detail
             target_account_id == entry.beneficiary
             b1 == WithBalanceMap(t.balances, target_account_id)
             y1 == IF detail.year \in DOMAIN t.year_mapping
                   THEN t.year_mapping
                   ELSE Insert(t.year_mapping, detail.year, <<>>)
         IN Outcome("Ok",
                [t EXCEPT !.pending_mint_editions = Take(@, registry_id),
                          !.minted_editions = Insert(@, detail.id, detail),
                          !.balances =
                              [b1 EXCEPT ![target_account_id] =
                                  Insert(@, detail.id, detail.supply)],
                          !.year_mapping = [y1 EXCEPT ![detail.year] = Append(@, detail.id)],
                          !.last_minted_token_id = {detail.id}])

\* ------------------------------------------------- the Tracker's queries
\* The exact sum of the supply fields of the editions in ids.
SupplySum(t, ids) == SumOver([id \in ids |-> t.minted_editions[id].supply], ids)

\* The exact sum of the retired fields of the editions in ids.
RetiredSum(t, ids) == SumOver([id \in ids |-> t.minted_editions[id].retired], ids)

\* Tracker::get_total_supply, as an exact sum
GetTotalSupply(t) == SupplySum(t, DOMAIN t.minted_editions)

\* Tracker::get_total_retired, as an exact sum
GetTotalRetired(t) == RetiredSum(t, DOMAIN t.minted_editions)

\* The loop of get_supply_by_year over the year's ids, as an exact sum: an id
\* without an edition adds nothing.
RECURSIVE YearSupply(_, _)
YearSupply(t, token_indices) ==
    IF token_indices = <<>> THEN 0
    ELSE (IF Head(token_indices) \in DOMAIN t.minted_editions
          THEN t.minted_editions[Head(token_indices)].supply ELSE 0)
         + YearSupply(t, Tail(token_indices))

\* Tracker::get_supply_by_year in CarbonUnit width: the outcomes of the call.
GetSupplyByYear(t, year) ==
    IF year \notin DOMAIN t.year_mapping
    THEN {[result |-> "TokenNotFound", panic |-> FALSE, value |-> 0]}
    ELSE {[result |-> "Ok", panic |-> s.panic, value |-> s.value] :
              s \in U64Sum(YearSupply(t, t.year_mapping[year]))}

\* Tracker::get_total_supply in CarbonUnit width: the outcomes of the fold
\* `total_supply += detail.supply` over the editions.
GetTotalSupplyU64(t) == U64Sum(GetTotalSupply(t))

\* Tracker::get_account_total_balance, as an exact sum
GetAccountTotalBalance(t, account_id) ==
    IF account_id \notin DOMAIN t.balances THEN 0
    ELSE SumOver(t.balances[account_id], DOMAIN t.balances[account_id])

\* Tracker::get_account_balance_by_id
GetAccountBalanceById(t, account_id, token_id) ==
    IF token_id \notin DOMAIN t.minted_editions THEN [result |-> "TokenNotFound", value |-> 0]
    ELSE IF account_id \notin DOMAIN t.balances THEN [result |-> "Ok", value |-> 0]
    ELSE IF token_id \notin DOMAIN t.balances[account_id] THEN [result |-> "Ok", value |-> 0]
    ELSE [result |-> "Ok", value |-> t.balances[account_id][token_id]]

\* The loop of get_account_balance_by_year over the year's ids, as an exact sum.
RECURSIVE YearBalance(_, _)
YearBalance(token_balances, year_tokens) ==
    IF year_tokens = <<>> THEN 0
    ELSE (IF Head(year_tokens) \in DOMAIN token_balances
          THEN token_balances[Head(year_tokens)] ELSE 0)
         + YearBalance(token_balances, Tail(year_tokens))

\* Tracker::get_account_balance_by_year, as an exact sum
GetAccountBalanceByYear(t, account_id, year) ==
    IF year \notin DOMAIN t.year_mapping THEN [result |-> "TokenNotFound", value |-> 0]
    ELSE IF account_id \notin DOMAIN t.balances THEN [result |-> "Ok", value |-> 0]
    ELSE IF DOMAIN t.balances[account_id] = {} THEN [result |-> "Ok", value |-> 0]
    ELSE [result |-> "Ok",
          value |-> YearBalance(t.balances[account_id], t.year_mapping[year])]

\* The amount an account holds of an edition: 0 without an entry.
BalanceOf(t, account_id, token_id) ==
    IF account_id \in DOMAIN t.balances /\ token_id \in DOMAIN t.balances[account_id]
    THEN t.balances[account_id][token_id]
    ELSE 0

\* ----------------------------------------------- the Tracker's transfers
\* A StorageHashMap<TokenId, CarbonUnit> as a list of TokenEdition. The store's
\* iteration order is not fixed by the source; the list is given by ascending id.
RECURSIVE EditionsOf(_)
EditionsOf(m) ==
    IF DOMAIN m = {} THEN <<>>
    ELSE LET id == CHOOSE x \in DOMAIN m : \A y \in DOMAIN m : x <= y
         IN <<[id |-> id, amount |-> m[id]]>> \o EditionsOf(Take(m, id))

\* Mutant of Credit: the target's entry is overwritten with the moved amount.
Credit_Overwrites(target_account_balances, editions) ==
    IF editions = <<>> THEN target_account_balances
    ELSE [id \in DOMAIN target_account_balances \cup {editions[i].id : i \in 1..Len(editions)} |->
             IF \E i \in 1..Len(editions) : editions[i].id = id
             THEN editions[CHOOSE i \in 1..Len(editions) : editions[i].id = id].amount
             ELSE target_account_balances[id]]

\* The credit loop of a transfer: each edition of the list is added to the
\* target's entry, or inserted when the target has none.
RECURSIVE Credit(_, _)
Credit(target_account_balances, editions) ==
    IF editions = <<>> THEN target_account_balances
    ELSE LET e == Head(editions)
         IN Credit(IF e.id \in DOMAIN target_account_balances
                   THEN [target_account_balances EXCEPT ![e.id] = @ + e.amount]
                   ELSE Insert(target_account_balances, e.id, e.amount),
                   Tail(editions))

\* A panic traps the call: the contract keeps none of the call's writes.
Panicked(t) == [result |-> "Panic", tokens |-> t, editions |-> <<>>]

\* Mutant of TransferTokenAllOf: the target's entry of a moved edition is
\* overwritten with the moved amount, not added to.
TransferTokenAllOf_Overwrites(t, account_id, target_account_id, total) ==
    IF total = 0 THEN [result |-> "CannotTransferZeroCarbonUnit", tokens |-> t, editions |-> <<>>]
    ELSE LET b1 == WithBalanceMap(t.balances, target_account_id)
         IN IF account_id \notin DOMAIN b1
            THEN [result |-> "InsufficientCarbonUnit",
                  tokens |-> [t EXCEPT !.balances = b1], editions |-> <<>>]
            ELSE LET transfer_details == EditionsOf(b1[account_id])
                     moved == b1[account_id]
                     b2 == [b1 EXCEPT ![account_id] = EmptyMap]
                     b3 == [b2 EXCEPT ![target_account_id] =
                               [id \in DOMAIN @ \cup DOMAIN moved |->
                                   IF id \in DOMAIN moved THEN moved[id] ELSE @[id]]]
                 IN [result |-> "Ok", tokens |-> [t EXCEPT !.balances = b3],
                     editions |-> transfer_details]

\* Tracker::transfer_token_all, given what get_account_total_balance returned
TransferTokenAllOf(t, account_id, target_account_id, total) ==
    IF total = 0 THEN [result |-> "CannotTransferZeroCarbonUnit", tokens |-> t, editions |-> <<>>]
    ELSE LET b1 == WithBalanceMap(t.balances, target_account_id)
         IN IF account_id \notin DOMAIN b1
            THEN [result |-> "InsufficientCarbonUnit",
                  tokens |-> [t EXCEPT !.balances = b1], editions |-> <<>>]
            ELSE LET transfer_details == EditionsOf(b1[account_id])
                     b2 == [b1 EXCEPT ![account_id] = EmptyMap]
                     b3 == [b2 EXCEPT ![target_account_id] = Credit(@, transfer_details)]
                 IN [result |-> "Ok", tokens |-> [t EXCEPT !.balances = b3],
                     editions |-> transfer_details]

\* Tracker::transfer_token_all: the outcomes the builds can produce
TransferTokenAll(t, account_id, target_account_id) ==
    {IF total.panic THEN Panicked(t)
     ELSE TransferTokenAllOf(t, account_id, target_account_id, total.value) :
        total \in U64Sum(GetAccountTotalBalance(t, account_id))}

\* Mutant of TransferTokenById: a transfer that also takes the amount off the
\* edition's supply, as a retirement does.
TransferTokenById_TouchesSupply(t, account_id, target_account_id, token_id, token_amount) ==
    IF token_amount = 0 THEN Outcome("CannotTransferZeroCarbonUnit", t)
    ELSE IF BalanceOf(t, account_id, token_id) < token_amount
    THEN Outcome("InsufficientCarbonUnit", t)
    ELSE LET left == t.balances[account_id][token_id] - token_amount
             b1 == WithBalanceMap(t.balances, target_account_id)
             b2 == [b1 EXCEPT ![account_id] =
                       IF left = 0 THEN Take(@, token_id)
                       ELSE [@ EXCEPT ![token_id] = left]]
             b3 == [b2 EXCEPT ![target_account_id] =
                       Credit(@, <<[id |-> token_id, amount |-> token_amount]>>)]
         IN Outcome("Ok",
                [t EXCEPT !.balances = b3,
                          !.minted_editions[token_id].supply =
                              IF @ >= token_amount THEN @ - token_amount ELSE 0])

\* Mutant of TransferTokenById: an entry that reaches 0 is kept, not taken.
TransferTokenById_KeepsEntry(t, account_id, target_account_id, token_id, token_amount) ==
    IF token_amount = 0 THEN Outcome("CannotTransferZeroCarbonUnit", t)
    ELSE LET b1 == WithBalanceMap(t.balances, target_account_id)
             t1 == [t EXCEPT !.balances = b1]
             held == GetAccountBalanceById(t1, account_id, token_id)
         IN IF account_id \notin DOMAIN b1 THEN Outcome("InsufficientCarbonUnit", t1)
            ELSE IF held.result # "Ok" THEN Outcome(held.result, t1)
            ELSE IF held.value < token_amount THEN Outcome("InsufficientCarbonUnit", t1)
            ELSE IF token_id \notin DOMAIN b1[account_id]
                 THEN Outcome("InsufficientCarbonUnit", t1)
            ELSE LET b2 == [b1 EXCEPT ![account_id][token_id] = @ - token_amount]
                     b3 == [b2 EXCEPT ![target_account_id] =
                               Credit(@, <<[id |-> token_id, amount |-> token_amount]>>)]
                 IN Outcome("Ok", [t EXCEPT !.balances = b3])

\* Mutant of TransferTokenById: the target is credited on the map it had
\* before the debit.
TransferTokenById_StaleTarget(t, account_id, target_account_id, token_id, token_amount) ==
    IF token_amount = 0 THEN Outcome("CannotTransferZeroCarbonUnit", t)
    ELSE LET b1 == WithBalanceMap(t.balances, target_account_id)
             t1 == [t EXCEPT !.balances = b1]
             held == GetAccountBalanceById(t1, account_id, token_id)
         IN IF account_id \notin DOMAIN b1 THEN Outcome("InsufficientCarbonUnit", t1)
            ELSE IF held.result # "Ok" THEN Outcome(held.result, t1)
            ELSE IF held.value < token_amount THEN Outcome("InsufficientCarbonUnit", t1)
            ELSE IF token_id \notin DOMAIN b1[account_id]
                 THEN Outcome("InsufficientCarbonUnit", t1)
            ELSE IF b1[account_id][token_id] < token_amount
                 THEN Outcome("InsufficientCarbonUnit", t1)
            ELSE LET left == b1[account_id][token_id] - token_amount
                     b2 == [b1 EXCEPT ![account_id] =
                               IF left = 0 THEN Take(@, token_id)
                               ELSE [@ EXCEPT ![token_id] = left]]
                     b3 == [b2 EXCEPT ![target_account_id] =
                               Credit(b1[target_account_id],
                                      <<[id |-> token_id, amount |-> token_amount]>>)]
                 IN Outcome("Ok", [t EXCEPT !.balances = b3])

\* Tracker::transfer_token_by_id
TransferTokenById(t, account_id, target_account_id, token_id, token_amount) ==
    IF token_amount = 0 THEN Outcome("CannotTransferZeroCarbonUnit", t)
    ELSE LET b1 == WithBalanceMap(t.balances, target_account_id)
             t1 == [t EXCEPT !.balances = b1]
             held == GetAccountBalanceById(t1, account_id, token_id)
         IN IF account_id \notin DOMAIN b1 THEN Outcome("InsufficientCarbonUnit", t1)
            ELSE IF held.result # "Ok" THEN Outcome(held.result, t1)
            ELSE IF held.value < token_amount THEN Outcome("InsufficientCarbonUnit", t1)
            ELSE IF token_id \notin DOMAIN b1[account_id]
                 THEN Outcome("InsufficientCarbonUnit", t1)
            ELSE IF b1[account_id][token_id] < token_amount
                 THEN Outcome("InsufficientCarbonUnit", t1)
            ELSE LET left == b1[account_id][token_id] - token_amount
                     b2 == [b1 EXCEPT ![account_id] =
                               IF left = 0 THEN Take(@, token_id)
                               ELSE [@ EXCEPT ![token_id] = left]]
                     b3 == [b2 EXCEPT ![target_account_id] =
                               Credit(@, <<[id |-> token_id, amount |-> token_amount]>>)]
                 IN Outcome("Ok", [t EXCEPT !.balances = b3])

\* The walk of transfer_token_by_year over the year's ids. In the branch that
\* drains an edition the balance is zeroed before it is subtracted from the
\* remaining amount, so the remaining amount stays as it was.
RECURSIVE YearWalk(_, _, _, _, _)
YearWalk(context_account_balances, year_tokens, remaining_amount_to_transfer, transfer_details, pending_removal) ==
    IF year_tokens = <<>> \/ remaining_amount_to_transfer = 0
    THEN [balances |-> context_account_balances,
          transfer_details |-> transfer_details,
          pending_removal |-> pending_removal]
    ELSE LET token_id == Head(year_tokens)
         IN IF token_id \notin DOMAIN context_account_balances
            THEN YearWalk(context_account_balances, Tail(year_tokens),
                          remaining_amount_to_transfer, transfer_details, pending_removal)
            ELSE LET balance == context_account_balances[token_id]
                     drained == balance < remaining_amount_to_transfer
                     transferred_balance_by_id ==
                         IF drained THEN balance ELSE remaining_amount_to_transfer
                     balance_after ==
                         IF drained THEN 0 ELSE balance - remaining_amount_to_transfer
                     remaining_after ==
                         IF drained THEN remaining_amount_to_transfer - balance_after ELSE 0
                 IN YearWalk([context_account_balances EXCEPT ![token_id] = balance_after],
                             Tail(year_tokens),
                             remaining_after,
                             Append(transfer_details,
                                    [id |-> token_id, amount |-> transferred_balance_by_id]),
                             IF balance_after = 0
                             THEN Append(pending_removal, token_id)
                             ELSE pending_removal)

\* The removal loop: context_account_balances.take(id) for each pending id.
RECURSIVE TakeAll(_, _)
TakeAll(m, ids) ==
    IF ids = <<>> THEN m ELSE TakeAll(Take(m, Head(ids)), Tail(ids))

\* Mutant of TransferTokenByYearOf: the year's index is walked from its end,
\* the newest edition first.
TransferTokenByYearOf_NewestFirst(t, account_id, target_account_id, token_year, token_amount, held) ==
    LET b1 == WithBalanceMap(t.balances, target_account_id)
        t1 == [t EXCEPT !.balances = b1]
        year_tokens == t.year_mapping[token_year]
    IN IF held < token_amount
       THEN [result |-> "InsufficientCarbonUnit", tokens |-> t1, editions |-> <<>>]
       ELSE LET walk == YearWalk(b1[account_id],
                                 [i \in 1..Len(year_tokens) |->
                                     year_tokens[Len(year_tokens) + 1 - i]],
                                 token_amount, <<>>, <<>>)
                b2 == [b1 EXCEPT ![account_id] = TakeAll(walk.balances, walk.pending_removal)]
                b3 == [b2 EXCEPT ![target_account_id] = Credit(@, walk.transfer_details)]
            IN [result |-> "Ok", tokens |-> [t EXCEPT !.balances = b3],
                editions |-> walk.transfer_details]

\* Tracker::transfer_token_by_year, given what get_account_balance_by_year returned
TransferTokenByYearOf(t, account_id, target_account_id, token_year, token_amount, held) ==
    LET b1 == WithBalanceMap(t.balances, target_account_id)
        t1 == [t EXCEPT !.balances = b1]
    IN IF held < token_amount
       THEN [result |-> "InsufficientCarbonUnit", tokens |-> t1, editions |-> <<>>]
       ELSE LET walk == YearWalk(b1[account_id], t.year_mapping[token_year],
                                 token_amount, <<>>, <<>>)
                b2 == [b1 EXCEPT ![account_id] = TakeAll(walk.balances, walk.pending_removal)]
                b3 == [b2 EXCEPT ![target_account_id] = Credit(@, walk.transfer_details)]
            IN [result |-> "Ok", tokens |-> [t EXCEPT !.balances = b3],
                editions |-> walk.transfer_details]

\* Tracker::transfer_token_by_year: the outcomes the builds can produce
TransferTokenByYear(t, account_id, target_account_id, token_year, token_amount) ==
    LET b1 == WithBalanceMap(t.balances, target_account_id)
        t1 == [t EXCEPT !.balances = b1]
    IN IF token_amount = 0
       THEN {[result |-> "CannotTransferZeroCarbonUnit", tokens |-> t, editions |-> <<>>]}
       ELSE IF account_id \notin DOMAIN b1
       THEN {[result |-> "InsufficientCarbonUnit", tokens |-> t1, editions |-> <<>>]}
       ELSE IF token_year \notin DOMAIN t.year_mapping
       THEN {[result |-> "TokenNotFound", tokens |-> t1, editions |-> <<>>]}
       ELSE {IF held.panic THEN Panicked(t)
             ELSE TransferTokenByYearOf(t, account_id, target_account_id, token_year,
                                        token_amount, held.value) :
                held \in U64Sum(GetAccountBalanceByYear(t1, account_id, token_year).value)}

\* Pass 1 of transfer_token_compounded: the first Err of the checks, or Ok.
\* `!*balance < amount` negates the bits of the balance before it compares.
RECURSIVE ValidateCompounded(_, _, _)
ValidateCompounded(t, context_account_balances, params) ==
    IF params = <<>> THEN "Ok"
    ELSE LET token_edition == Head(params)
         IN IF token_edition.id \notin DOMAIN t.minted_editions THEN "TokenNotFound"
            ELSE IF token_edition.amount = 0 THEN "CannotTransferZeroCarbonUnit"
            ELSE IF token_edition.id \notin DOMAIN context_account_balances
                 THEN "InsufficientCarbonUnit"
            ELSE IF CarbonUnitMax - context_account_balances[token_edition.id]
                        < token_edition.amount
                 THEN "InsufficientCarbonUnit"
            ELSE ValidateCompounded(t, context_account_balances, Tail(params))

\* Mutant of ApplyCompounded: the first pair is applied and the rest dropped.
ApplyCompounded_FirstPairOnly(t, account_id, target_account_id, params) ==
    IF params = <<>> THEN Outcome("Ok", t)
    ELSE TransferTokenById(t, account_id, target_account_id,
                           Head(params).id, Head(params).amount)

\* Pass 2 of transfer_token_compounded: transfer_token_by_id for each pair, `?`
\* returning the first Err with the Tracker as the earlier pairs left it.
RECURSIVE ApplyCompounded(_, _, _, _)
ApplyCompounded(t, account_id, target_account_id, params) ==
    IF params = <<>> THEN Outcome("Ok", t)
    ELSE LET moved == TransferTokenById(t, account_id, target_account_id,
                                        Head(params).id, Head(params).amount)
         IN IF moved.result # "Ok" THEN moved
            ELSE ApplyCompounded(moved.tokens, account_id, target_account_id, Tail(params))

\* Tracker::transfer_token_compounded
TransferTokenCompounded(t, account_id, target_account_id, params) ==
    IF account_id \notin DOMAIN t.balances THEN Outcome("InsufficientCarbonUnit", t)
    ELSE LET checked == ValidateCompounded(t, t.balances[account_id], params)
         IN IF checked # "Ok" THEN Outcome(checked, t)
            ELSE ApplyCompounded(t, account_id, target_account_id, params)

\* Mutant of RetireTokenId: the supply is updated on the Tracker as it was
\* before the transfer, so the retiring account keeps its balance.
RetireTokenId_KeepsBalance(t, account_id, token_id, retirement_amount) ==
    LET moved == TransferTokenById(t, account_id, Blackhole, token_id, retirement_amount)
    IN IF moved.result # "Ok" THEN moved
       ELSE IF t.minted_editions[token_id].supply < retirement_amount
       THEN Outcome("BlockchainCorrupted", moved.tokens)
       ELSE Outcome("Ok",
                [t EXCEPT
                    !.minted_editions[token_id].supply = @ - retirement_amount,
                    !.minted_editions[token_id].retired = @ + retirement_amount])

\* Mutant of RetireTokenId: the supply is reduced and the retired amount is
\* left as it was.
RetireTokenId_RetiredNotCounted(t, account_id, token_id, retirement_amount) ==
    LET moved == TransferTokenById(t, account_id, Blackhole, token_id, retirement_amount)
    IN IF moved.result # "Ok" THEN moved
       ELSE IF moved.tokens.minted_editions[token_id].supply < retirement_amount
       THEN Outcome("BlockchainCorrupted", moved.tokens)
       ELSE Outcome("Ok",
                [moved.tokens EXCEPT
                    !.minted_editions[token_id].supply = @ - retirement_amount])

\* Mutant of RetireTokenId: the amount is added to retired and not taken off
\* the supply.
RetireTokenId_SupplyKept(t, account_id, token_id, retirement_amount) ==
    LET moved == TransferTokenById(t, account_id, Blackhole, token_id, retirement_amount)
    IN IF moved.result # "Ok" THEN moved
       ELSE IF moved.tokens.minted_editions[token_id].supply < retirement_amount
       THEN Outcome("BlockchainCorrupted", moved.tokens)
       ELSE Outcome("Ok",
                [moved.tokens EXCEPT
                    !.minted_editions[token_id].retired = @ + retirement_amount])

\* Mutant of RetireTokenId: the retired amount is credited back to the caller
\* instead of the blackhole.
RetireTokenId_NotSunk(t, account_id, token_id, retirement_amount) ==
    LET moved == TransferTokenById(t, account_id, account_id, token_id, retirement_amount)
    IN IF moved.result # "Ok" THEN moved
       ELSE IF moved.tokens.minted_editions[token_id].supply < retirement_amount
       THEN Outcome("BlockchainCorrupted", moved.tokens)
       ELSE Outcome("Ok",
                [moved.tokens EXCEPT
                    !.minted_editions[token_id].supply = @ - retirement_amount,
                    !.minted_editions[token_id].retired = @ + retirement_amount])

\* Tracker::retire_token_id
RetireTokenId(t, account_id, token_id, retirement_amount) ==
    LET moved == TransferTokenById(t, account_id, Blackhole, token_id, retirement_amount)
    IN IF moved.result # "Ok" THEN moved
       ELSE IF moved.tokens.minted_editions[token_id].supply < retirement_amount
       THEN Outcome("BlockchainCorrupted", moved.tokens)
       ELSE Outcome("Ok",
                [moved.tokens EXCEPT
                    !.minted_editions[token_id].supply = @ - retirement_amount,
                    !.minted_editions[token_id].retired = @ + retirement_amount])

\* Mutant of TakeNextRetirementId: the counter is handed out and not advanced.
TakeNextRetirementId_NotAdvanced(book) ==
    [id |-> book.next_retirement_id, next_retirement_id |-> book.next_retirement_id]

\* ------------------------------------------------------ the retirement Book
\* Book::take_next_retirement_id
TakeNextRetirementId(book) ==
    [id |-> book.next_retirement_id, next_retirement_id |-> book.next_retirement_id + 1]

\* Mutant of InsertNewReport: the new id is put at the head of the account's
\* index, not pushed at its end.
InsertNewReport_AtHead(book, account, retirement_detail) ==
    LET taken == TakeNextRetirementId(book)
        report == [id |-> taken.id,
                   beneficiary |-> account,
                   token_id |-> retirement_detail.detail.id,
                   amount |-> retirement_detail.balance,
                   registry_id |-> retirement_detail.detail.registry_id]
        m1 == IF account \in DOMAIN book.account_mapping
              THEN book.account_mapping
              ELSE Insert(book.account_mapping, account, <<>>)
    IN [book EXCEPT !.next_retirement_id = taken.next_retirement_id,
                    !.last_retirement_id = {taken.id},
                    !.reports = Insert(@, taken.id, report),
                    !.account_mapping = [m1 EXCEPT ![account] = <<taken.id>> \o @]]

\* Book::insert_new_report; retirement_detail is a TokenBalanceDetail
InsertNewReport(book, account, retirement_detail) ==
    LET taken == TakeNextRetirementId(book)
        report == [id |-> taken.id,
                   beneficiary |-> account,
                   token_id |-> retirement_detail.detail.id,
                   amount |-> retirement_detail.balance,
                   registry_id |-> retirement_detail.detail.registry_id]
        m1 == IF account \in DOMAIN book.account_mapping
              THEN book.account_mapping
              ELSE Insert(book.account_mapping, account, <<>>)
    IN [book EXCEPT !.next_retirement_id = taken.next_retirement_id,
                    !.last_retirement_id = {taken.id},
                    !.reports = Insert(@, taken.id, report),
                    !.account_mapping = [m1 EXCEPT ![account] = Append(@, taken.id)]]

\* Book::get_report_by_id
GetReportById(book, retirement_id) ==
    IF retirement_id \notin DOMAIN book.reports
    THEN [result |-> "RetirementReportNotFound", value |-> {}]
    ELSE [result |-> "Ok", value |-> {book.reports[retirement_id]}]

\* Book::get_last_report
GetLastReport(book) ==
    IF book.last_retirement_id = {}
    THEN [result |-> "RetirementReportNotFound", value |-> {}]
    ELSE GetReportById(book, CHOOSE id \in book.last_retirement_id : TRUE)

\* Book::get_account_report
GetAccountReport(book, account) ==
    IF account \notin DOMAIN book.account_mapping THEN <<>>
    ELSE [i \in 1..Len(book.account_mapping[account]) |->
             book.reports[book.account_mapping[account][i]]]

\* Mutant of Contains: every account passes for an admitted custodian.
Contains_Anyone(c, id) == id \in c \/ id \notin c

\* ------------------------------------------------- the custodian registry
\* Collections::contains
Contains(c, id) == id \in c

\* Collections::add
AddCustodian(c, id) ==
    IF id \in c THEN [result |-> "CustodianAlreadyRegistered", custodians |-> c]
    ELSE [result |-> "Ok", custodians |-> c \cup {id}]

\* Mutant of RemoveCustodian: the removal clears the whole registry.
RemoveCustodian_ClearsAll(c, id) ==
    IF id \notin c THEN [result |-> "CustodianNotFound", custodians |-> c]
    ELSE [result |-> "Ok", custodians |-> {}]

\* Collections::remove
RemoveCustodian(c, id) ==
    IF id \notin c THEN [result |-> "CustodianNotFound", custodians |-> c]
    ELSE [result |-> "Ok", custodians |-> c \ {id}]

\* ---------------------------------------------------------------- Init
Init ==
    /\ custodians = {}
    /\ tokens = TrackerDefault
    /\ retirements = BookDefault
    /\ issued_ids = <<>>
    /\ denied_ids = {}
    /\ approved_amount = EmptyMap

\* ------------------------------------------------- the contract's messages
\* A message that returns Err(Unauthorized) before it touches anything.
Unauthorized == UNCHANGED vars

\* Wall::gov_custodian_account_add
gov_custodian_account_add(caller, id) ==
    IF caller # Governor THEN Unauthorized
    ELSE /\ custodians' = AddCustodian(custodians, id).custodians
         /\ UNCHANGED <<tokens, retirements, historyVars>>

\* Wall::gov_custodian_account_remove
gov_custodian_account_remove(caller, id) ==
    IF caller # Governor THEN Unauthorized
    ELSE /\ custodians' = RemoveCustodian(custodians, id).custodians
         /\ UNCHANGED <<tokens, retirements, historyVars>>

\* Wall::ctd_token_mint_request
ctd_token_mint_request(caller, params) ==
    IF ~Contains(custodians, caller) THEN Unauthorized
    ELSE LET r == InsertPendingMint(tokens, caller, params)
         IN /\ r.result = "Ok" => Len(issued_ids) < MaxMintRequests
            /\ tokens' = r.tokens
            /\ issued_ids' =
                   IF r.result = "Ok"
                   THEN Append(issued_ids,
                               r.tokens.pending_mint_editions[params.registry_id].detail.id)
                   ELSE issued_ids
            /\ UNCHANGED <<custodians, retirements, denied_ids, approved_amount>>

\* Wall::gov_token_mint_approve
gov_token_mint_approve(caller, registry_id) ==
    IF caller # Governor THEN Unauthorized
    ELSE LET r == ApprovePendingMint(tokens, registry_id)
         IN /\ tokens' = r.tokens
            /\ approved_amount' =
                   IF r.result = "Ok"
                   THEN LET d == tokens.pending_mint_editions[registry_id].detail
                        IN Insert(approved_amount, d.id, d.supply)
                   ELSE approved_amount
            /\ UNCHANGED <<custodians, retirements, issued_ids, denied_ids>>

\* Wall::gov_token_mint_deny
gov_token_mint_deny(caller, registry_id) ==
    IF caller # Governor THEN Unauthorized
    ELSE LET r == DenyPendingMint(tokens, registry_id)
         IN /\ tokens' = r.tokens
            /\ denied_ids' =
                   IF r.result = "Ok"
                   THEN denied_ids \cup {tokens.pending_mint_editions[registry_id].detail.id}
                   ELSE denied_ids
            /\ UNCHANGED <<custodians, retirements, issued_ids, approved_amount>>

\* Wall::own_token_transfer_all
own_token_transfer_all(caller, target_account_id) ==
    \E r \in TransferTokenAll(tokens, caller, target_account_id) :
        /\ tokens' = r.tokens
        /\ UNCHANGED <<custodians, retirements, historyVars>>

\* Wall::own_token_transfer_by_id
own_token_transfer_by_id(caller, target_account_id, token_id, token_amount) ==
    /\ tokens' = TransferTokenById(tokens, caller, target_account_id,
                                   token_id, token_amount).tokens
    /\ UNCHANGED <<custodians, retirements, historyVars>>

\* Wall::own_token_transfer_by_year
own_token_transfer_by_year(caller, target_account_id, token_year, token_amount) ==
    \E r \in TransferTokenByYear(tokens, caller, target_account_id, token_year, token_amount) :
        /\ tokens' = r.tokens
        /\ UNCHANGED <<custodians, retirements, historyVars>>

\* Wall::own_token_transfer_compounded
own_token_transfer_compounded(caller, target_account_id, params) ==
    /\ tokens' = TransferTokenCompounded(tokens, caller, target_account_id, params).tokens
    /\ UNCHANGED <<custodians, retirements, historyVars>>

\* Wall::own_token_retire_by_id: the retirement, then the report of it
own_token_retire_by_id(caller, token_id, retirement_amount) ==
    LET r == RetireTokenId(tokens, caller, token_id, retirement_amount)
    IN /\ r.result = "Ok" => retirements.next_retirement_id < MaxRetirements
       /\ tokens' = r.tokens
       /\ retirements' =
              IF r.result = "Ok"
              THEN InsertNewReport(retirements, caller,
                                   [balance |-> retirement_amount,
                                    detail |-> r.tokens.minted_editions[token_id]])
              ELSE retirements
       /\ UNCHANGED <<custodians, historyVars>>

\* The ledger runs: every message, the mint requests on one registry reference.
Next ==
    \/ \E caller \in Callers, id \in CustodianCandidates :
           gov_custodian_account_add(caller, id)
    \/ \E caller \in Callers, id \in CustodianCandidates :
           gov_custodian_account_remove(caller, id)
    \/ \E caller \in Callers, params \in MintRequestParams :
           ctd_token_mint_request(caller, params)
    \/ \E caller \in Callers, registry_id \in LedgerRegistryIds :
           gov_token_mint_approve(caller, registry_id)
    \/ \E caller \in Callers, registry_id \in LedgerRegistryIds :
           gov_token_mint_deny(caller, registry_id)
    \/ \E caller \in Callers, target \in AccountIds : own_token_transfer_all(caller, target)
    \/ \E caller \in Callers, target \in AccountIds, token_id \in TokenIds,
           token_amount \in Amounts :
           own_token_transfer_by_id(caller, target, token_id, token_amount)
    \/ \E caller \in Callers, target \in AccountIds, token_year \in Years,
           token_amount \in Amounts :
           own_token_transfer_by_year(caller, target, token_year, token_amount)
    \/ \E caller \in Callers, target \in AccountIds, params \in CalledBundles :
           own_token_transfer_compounded(caller, target, params)
    \/ \E caller \in Callers, token_id \in TokenIds, retirement_amount \in Amounts :
           own_token_retire_by_id(caller, token_id, retirement_amount)

Spec == Init /\ [][Next]_vars

\* The mint workflow runs: every message, the mint requests on every registry
\* reference with one amount, year and beneficiary.
NextMint ==
    \/ \E caller \in Callers, id \in WorkflowCustodianCandidates :
           gov_custodian_account_add(caller, id)
    \/ \E caller \in Callers, id \in WorkflowCustodianCandidates :
           gov_custodian_account_remove(caller, id)
    \/ \E caller \in Callers, params \in WorkflowRequestParams :
           ctd_token_mint_request(caller, params)
    \/ \E caller \in Callers, registry_id \in RegistryIds :
           gov_token_mint_approve(caller, registry_id)
    \/ \E caller \in Callers, registry_id \in RegistryIds :
           gov_token_mint_deny(caller, registry_id)
    \/ \E caller \in Callers, target \in AccountIds : own_token_transfer_all(caller, target)
    \/ \E caller \in Callers, target \in AccountIds, token_id \in TokenIds,
           token_amount \in Amounts :
           own_token_transfer_by_id(caller, target, token_id, token_amount)
    \/ \E caller \in Callers, target \in AccountIds, token_year \in Years,
           token_amount \in Amounts :
           own_token_transfer_by_year(caller, target, token_year, token_amount)
    \/ \E caller \in Callers, target \in AccountIds, params \in CalledBundles :
           own_token_transfer_compounded(caller, target, params)
    \/ \E caller \in Callers, token_id \in TokenIds, retirement_amount \in Amounts :
           own_token_retire_by_id(caller, token_id, retirement_amount)

SpecMint == Init /\ [][NextMint]_vars

\* ------------------------------------------------------------ properties
\* The properties that speak of one call range over every input of the call,
\* applied to the Tracker of every reachable state.

\* The balance amounts of two Trackers agree, for every account and edition.
SameAmounts(t1, t2) ==
    \A a \in AccountIds, id \in TokenIds : BalanceOf(t1, a, id) = BalanceOf(t2, a, id)

\* The editions of a Tracker all have supply + retired equal to what they were
\* approved with.
Conserved(t) ==
    \A id \in DOMAIN t.minted_editions :
        /\ id \in DOMAIN approved_amount
        /\ t.minted_editions[id].supply + t.minted_editions[id].retired = approved_amount[id]

\* C1: in every reachable state every minted edition has supply + retired equal
\* to the verified amount it was approved with, and so it has after any retire
\* call made there, whatever the call returns (an Err included, and with any
\* account debited, the blackhole too).
C1_SupplyConserved ==
    /\ Conserved(tokens)
    /\ \A from \in AccountIds, id \in TokenIds, amount \in Amounts :
           Conserved(RetireTokenId(tokens, from, id, amount).tokens)

\* C1 witness: an edition that has been retired in part and is still in supply,
\* in a state where some retire call returns an Err.
C1_Witness ==
    /\ \E id \in DOMAIN tokens.minted_editions :
           /\ tokens.minted_editions[id].retired > 0
           /\ tokens.minted_editions[id].supply > 0
    /\ \E from \in Callers, id \in TokenIds, amount \in Amounts :
           RetireTokenId(tokens, from, id, amount).result = "InsufficientCarbonUnit"

\* C2 (as claimed): a transfer_compounded call that returns an Err leaves every
\* account's balance of every edition as it was before the call.
C2_CompoundedAllOrNothing ==
    \A from \in Callers, to \in AccountIds, params \in Bundles :
        LET r == TransferTokenCompounded(tokens, from, to, params)
        IN r.result # "Ok" => SameAmounts(r.tokens, tokens)

\* C3 (as claimed): a transfer_all, transfer_by_id or transfer_by_year call that
\* returns an Err leaves the whole Tracker as it was, the set of accounts that
\* own a balance map included.
C3_FailedTransferChangesNothing ==
    \A from \in Callers, to \in AccountIds :
        /\ \A r \in TransferTokenAll(tokens, from, to) :
               r.result \notin {"Ok", "Panic"} => r.tokens = tokens
        /\ \A id \in TokenIds, amount \in Amounts :
               LET r == TransferTokenById(tokens, from, to, id, amount)
               IN r.result # "Ok" => r.tokens = tokens
        /\ \A year \in Years, amount \in Amounts :
               \A r \in TransferTokenByYear(tokens, from, to, year, amount) :
                   r.result \notin {"Ok", "Panic"} => r.tokens = tokens

\* What an account holds of a year's editions.
YearHeld(t, account_id, year) ==
    IF year \in DOMAIN t.year_mapping /\ account_id \in DOMAIN t.balances
    THEN YearBalance(t.balances[account_id], t.year_mapping[year])
    ELSE 0

\* C4 (as claimed): a successful transfer_by_year(from, to, year, amount) with
\* from # to returns pairs whose amounts sum to amount, takes exactly amount off
\* what from holds of the year's editions and adds exactly amount to what to
\* holds of them.
C4_ByYearMovesExactly ==
    \A from \in Callers, to \in AccountIds, year \in Years, amount \in Amounts :
        \A r \in TransferTokenByYear(tokens, from, to, year, amount) :
            (from # to /\ r.result = "Ok") =>
                /\ SumAmounts(r.editions) = amount
                /\ YearHeld(r.tokens, from, year) = YearHeld(tokens, from, year) - amount
                /\ YearHeld(r.tokens, to, year) = YearHeld(tokens, to, year) + amount

\* C5: when the blackhole is never the debited account, no account but the
\* blackhole holds more of an edition than the edition's supply, and no retire
\* call returns BlockchainCorrupted: a retire call either succeeds or leaves
\* every balance amount, every supply and every retired amount as they were.
C5_NeverCorrupted ==
    /\ \A a \in AccountIds \ {Blackhole}, id \in DOMAIN tokens.minted_editions :
           BalanceOf(tokens, a, id) <= tokens.minted_editions[id].supply
    /\ \A from \in Callers, id \in TokenIds, amount \in Amounts :
           LET r == RetireTokenId(tokens, from, id, amount)
           IN /\ r.result # "BlockchainCorrupted"
              /\ r.result # "Ok" =>
                     /\ SameAmounts(r.tokens, tokens)
                     /\ r.tokens.minted_editions = tokens.minted_editions

\* C5 witness: after a retirement, an account holds the whole remaining supply
\* of the edition, and retiring all of it succeeds.
C5_Witness ==
    \E from \in Callers, id \in DOMAIN tokens.minted_editions :
        /\ tokens.minted_editions[id].retired > 0
        /\ tokens.minted_editions[id].supply > 0
        /\ BalanceOf(tokens, from, id) = tokens.minted_editions[id].supply
        /\ RetireTokenId(tokens, from, id, BalanceOf(tokens, from, id)).result = "Ok"

\* C6 (as claimed): every stored (account, edition) balance entry is above 0.
C6_NoZeroEntries ==
    \A a \in DOMAIN tokens.balances :
        \A id \in DOMAIN tokens.balances[a] : tokens.balances[a][id] > 0

\* A transfer left the supply bookkeeping of t1 as it was: the editions with
\* their supply and retired fields, the pending requests, the year index, the
\* id counter and the last minted id, and so the totals.
SupplyUntouched(t1, t2) ==
    /\ t2.minted_editions = t1.minted_editions
    /\ t2.pending_mint_editions = t1.pending_mint_editions
    /\ t2.year_mapping = t1.year_mapping
    /\ t2.next_token_id = t1.next_token_id
    /\ t2.last_minted_token_id = t1.last_minted_token_id
    /\ GetTotalSupply(t2) = GetTotalSupply(t1)
    /\ GetTotalRetired(t2) = GetTotalRetired(t1)

\* C7: every transfer_all, transfer_by_id, transfer_by_year and
\* transfer_compounded call, whatever it returns, leaves the supply and retired
\* fields of every edition, the pending requests, the year index and the id
\* counter as they were, and with them the total supply and the total retired.
C7_TransfersLeaveSupply ==
    \A from \in Callers, to \in AccountIds :
        /\ \A r \in TransferTokenAll(tokens, from, to) : SupplyUntouched(tokens, r.tokens)
        /\ \A id \in TokenIds, amount \in Amounts :
               SupplyUntouched(tokens, TransferTokenById(tokens, from, to, id, amount).tokens)
        /\ \A year \in Years, amount \in Amounts :
               \A r \in TransferTokenByYear(tokens, from, to, year, amount) :
                   SupplyUntouched(tokens, r.tokens)
        /\ \A params \in Bundles :
               SupplyUntouched(tokens, TransferTokenCompounded(tokens, from, to, params).tokens)

\* C7 witness: an edition in supply that two accounts hold, which only a
\* transfer brings about, in a state where a transfer succeeds and one fails.
C7_Witness ==
    /\ \E id \in DOMAIN tokens.minted_editions, a1, a2 \in AccountIds :
           /\ a1 # a2
           /\ BalanceOf(tokens, a1, id) > 0
           /\ BalanceOf(tokens, a2, id) > 0
           /\ tokens.minted_editions[id].supply > 0
    /\ \E from \in Callers, to \in AccountIds, id \in TokenIds, amount \in Amounts :
           TransferTokenById(tokens, from, to, id, amount).result = "Ok"
    /\ \E from \in Callers, to \in AccountIds, id \in TokenIds, amount \in Amounts :
           TransferTokenById(tokens, from, to, id, amount).result = "InsufficientCarbonUnit"

\* Every request a custodian can make.
AnyRequestParams ==
    [registry_id : RegistryIds, verified_carbon_unit : Amounts,
     issuance_year : Years, beneficiary : AccountIds]

\* Neither approve nor deny finds a request for registry_id in t, and both
\* leave t as it is.
Resolved(t, registry_id) ==
    /\ ApprovePendingMint(t, registry_id) = Outcome("TokenMintRequestNotFound", t)
    /\ DenyPendingMint(t, registry_id) = Outcome("TokenMintRequestNotFound", t)

\* C8: approve_mint and deny_mint of a reference with no pending request fail
\* with TokenMintRequestNotFound and change nothing; on a pending request they
\* succeed and consume it, so that a further approve or deny of the reference
\* fails with TokenMintRequestNotFound; an approval adds exactly one edition, a
\* denial none, and no denied request's id ever becomes an edition.
C8_ResolvedExactlyOnce ==
    /\ denied_ids \cap DOMAIN tokens.minted_editions = {}
    /\ \A registry_id \in RegistryIds :
           LET approved == ApprovePendingMint(tokens, registry_id)
               denied == DenyPendingMint(tokens, registry_id)
           IN IF registry_id \notin DOMAIN tokens.pending_mint_editions
              THEN Resolved(tokens, registry_id)
              ELSE /\ approved.result = "Ok"
                   /\ denied.result = "Ok"
                   /\ Resolved(approved.tokens, registry_id)
                   /\ Resolved(denied.tokens, registry_id)
                   /\ Cardinality(DOMAIN approved.tokens.minted_editions) =
                          Cardinality(DOMAIN tokens.minted_editions) + 1
                   /\ denied.tokens.minted_editions = tokens.minted_editions

\* C8 witness: one request has been denied and another approved, and a
\* reference that was requested has no pending request any more.
C8_Witness ==
    /\ denied_ids # {}
    /\ tokens.minted_editions # EmptyMap
    /\ \E id \in DOMAIN tokens.minted_editions :
           tokens.minted_editions[id].registry_id \notin DOMAIN tokens.pending_mint_editions

\* C9: request_mint fails with TokenMintRequestAlreadyPending exactly when a
\* request for the reference is pending, and succeeds otherwise, whether or not
\* an edition carries the reference already; after an approve or a deny of the
\* reference a new request succeeds; an approval adds an edition with a new id
\* and the request's reference and leaves the editions there were, and every
\* balance of them, as they were.
C9_AlreadyPendingIffPending ==
    /\ \A minter \in Callers, params \in AnyRequestParams :
           LET r == InsertPendingMint(tokens, minter, params)
           IN /\ r.result \in {"Ok", "TokenMintRequestAlreadyPending"}
              /\ r.result = "TokenMintRequestAlreadyPending" <=>
                     params.registry_id \in DOMAIN tokens.pending_mint_editions
              /\ \A t \in {ApprovePendingMint(r.tokens, params.registry_id).tokens,
                            DenyPendingMint(r.tokens, params.registry_id).tokens} :
                     InsertPendingMint(t, minter, params).result = "Ok"
    /\ \A registry_id \in DOMAIN tokens.pending_mint_editions :
           LET id == tokens.pending_mint_editions[registry_id].detail.id
               after == ApprovePendingMint(tokens, registry_id).tokens
           IN /\ id \notin DOMAIN tokens.minted_editions
              /\ DOMAIN after.minted_editions = DOMAIN tokens.minted_editions \cup {id}
              /\ after.minted_editions[id].registry_id = registry_id
              /\ \A old \in DOMAIN tokens.minted_editions :
                     /\ after.minted_editions[old] = tokens.minted_editions[old]
                     /\ \A a \in AccountIds :
                            BalanceOf(after, a, old) = BalanceOf(tokens, a, old)

\* C9 witness: two editions with different ids carry the same registry
\* reference.
C9_Witness ==
    \E id1, id2 \in DOMAIN tokens.minted_editions :
        /\ id1 # id2
        /\ tokens.minted_editions[id1].registry_id = tokens.minted_editions[id2].registry_id

\* C10: the ids handed to the accepted requests are all different; an accepted
\* request gets an id no earlier request got, a refused request leaves the
\* Tracker as it is, and a deny leaves the counter where it is; the pending
\* requests' ids differ from one another and from every edition's id, so an
\* approval never overwrites an edition.
C10_IdsNeverReused ==
    /\ \A i, j \in 1..Len(issued_ids) : i # j => issued_ids[i] # issued_ids[j]
    /\ \A i \in 1..Len(issued_ids) : issued_ids[i] < tokens.next_token_id
    /\ DOMAIN tokens.minted_editions \subseteq Range(issued_ids)
    /\ \A id \in DOMAIN tokens.minted_editions : tokens.minted_editions[id].id = id
    /\ \A r1, r2 \in DOMAIN tokens.pending_mint_editions :
           /\ tokens.pending_mint_editions[r1].detail.id \in Range(issued_ids)
           /\ tokens.pending_mint_editions[r1].detail.id \notin DOMAIN tokens.minted_editions
           /\ r1 # r2 => tokens.pending_mint_editions[r1].detail.id #
                             tokens.pending_mint_editions[r2].detail.id
    /\ \A minter \in Callers, params \in AnyRequestParams :
           LET r == InsertPendingMint(tokens, minter, params)
           IN IF r.result = "Ok"
              THEN /\ r.tokens.pending_mint_editions[params.registry_id].detail.id
                          \notin Range(issued_ids)
                   /\ r.tokens.next_token_id > tokens.next_token_id
              ELSE r.tokens = tokens
    /\ \A registry_id \in RegistryIds :
           DenyPendingMint(tokens, registry_id).tokens.next_token_id = tokens.next_token_id

\* C10 witness: two requests were accepted, one of them denied and the other
\* approved, and a request made now is accepted.
C10_Witness ==
    /\ Len(issued_ids) >= 2
    /\ denied_ids # {}
    /\ tokens.minted_editions # EmptyMap
    /\ \E minter \in Callers, params \in AnyRequestParams :
           InsertPendingMint(tokens, minter, params).result = "Ok"

\* C11 (as claimed): the edition an approve_mint materialises has an id above
\* the id of every edition approved before it: every pending request's id is
\* above every edition's id, the last minted edition id is the greatest
\* edition id, and each year's index lists its ids in increasing order.
C11_ApprovedIdsIncrease ==
    /\ \A registry_id \in DOMAIN tokens.pending_mint_editions :
           \A id \in DOMAIN tokens.minted_editions :
               tokens.pending_mint_editions[registry_id].detail.id > id
    /\ \A last \in tokens.last_minted_token_id :
           \A id \in DOMAIN tokens.minted_editions : id <= last
    /\ \A year \in DOMAIN tokens.year_mapping :
           \A i, j \in 1..Len(tokens.year_mapping[year]) :
               i < j => tokens.year_mapping[year][i] < tokens.year_mapping[year][j]

\* The year index of a Tracker for a year, empty when the year has none.
YearIndex(t, year) == IF year \in DOMAIN t.year_mapping THEN t.year_mapping[year] ELSE <<>>

\* What a successful approve_mint(registry_id) on t leaves: t2.
Approved(t, registry_id, t2) ==
    LET entry == t.pending_mint_editions[registry_id]
        id == entry.detail.id
    IN /\ t2.pending_mint_editions = Take(t.pending_mint_editions, registry_id)
       /\ id \notin DOMAIN t.minted_editions
       /\ DOMAIN t2.minted_editions = DOMAIN t.minted_editions \cup {id}
       /\ t2.minted_editions[id] = entry.detail
       /\ t2.minted_editions[id].retired = 0
       /\ \A old \in DOMAIN t.minted_editions : t2.minted_editions[old] = t.minted_editions[old]
       /\ \A a \in AccountIds : BalanceOf(t, a, id) = 0
       /\ entry.beneficiary \in DOMAIN t2.balances
       /\ id \in DOMAIN t2.balances[entry.beneficiary]
       /\ \A a \in AccountIds :
              /\ BalanceOf(t2, a, id) = IF a = entry.beneficiary THEN entry.detail.supply ELSE 0
              /\ \A old \in TokenIds \ {id} : BalanceOf(t2, a, old) = BalanceOf(t, a, old)
       /\ \A year \in Years :
              YearIndex(t2, year) = IF year = entry.detail.year
                                    THEN Append(YearIndex(t, year), id)
                                    ELSE YearIndex(t, year)
       /\ t2.last_minted_token_id = {id}
       /\ t2.next_token_id = t.next_token_id

\* C12: a successful approve_mint(r) removes the pending request for r and adds
\* exactly one edition, under the id reserved at request time, with supply the
\* verified amount of the request and retired 0; the beneficiary's balance of
\* the edition goes from 0 to the verified amount, the id is appended to the
\* end of the issuance year's index and becomes the last minted edition id; no
\* other edition and no other (account, edition) balance changes.
C12_ApproveEffect ==
    /\ \A registry_id \in DOMAIN tokens.pending_mint_editions :
           LET r == ApprovePendingMint(tokens, registry_id)
           IN r.result = "Ok" /\ Approved(tokens, registry_id, r.tokens)
    /\ \A minter \in Callers, params \in AnyRequestParams :
           LET requested == InsertPendingMint(tokens, minter, params)
               r == ApprovePendingMint(requested.tokens, params.registry_id)
           IN requested.result = "Ok" =>
                  /\ r.result = "Ok"
                  /\ Approved(requested.tokens, params.registry_id, r.tokens)
                  /\ r.tokens.minted_editions[tokens.next_token_id].supply =
                         params.verified_carbon_unit
                  /\ r.tokens.minted_editions[tokens.next_token_id].year = params.issuance_year
                  /\ BalanceOf(r.tokens, params.beneficiary, tokens.next_token_id) =
                         params.verified_carbon_unit

\* C12 witness: a second edition has been approved into a year's index behind
\* the first, and its beneficiary holds its whole supply.
C12_Witness ==
    \E year \in DOMAIN tokens.year_mapping, a \in AccountIds :
           /\ Len(tokens.year_mapping[year]) >= 2
           /\ tokens.last_minted_token_id = {tokens.year_mapping[year][2]}
           /\ BalanceOf(tokens, a, tokens.year_mapping[year][2]) > 0
           /\ BalanceOf(tokens, a, tokens.year_mapping[year][2]) =
                  tokens.minted_editions[tokens.year_mapping[year][2]].supply

\* C13: a successful deny_mint(r) removes the pending request for r and changes
\* nothing else: the editions, the balances, the year index, the last minted
\* edition id, the edition id counter and the total supply are as before; and
\* no denied request's id is an edition's id in any reachable state.
C13_DenyOnlyRemoves ==
    /\ \A id \in denied_ids : id \notin DOMAIN tokens.minted_editions
    /\ \A registry_id \in DOMAIN tokens.pending_mint_editions :
           LET r == DenyPendingMint(tokens, registry_id)
           IN /\ r.result = "Ok"
              /\ r.tokens = [tokens EXCEPT !.pending_mint_editions = Take(@, registry_id)]
              /\ GetTotalSupply(r.tokens) = GetTotalSupply(tokens)

\* C13 witness: a request was denied, and a request made after it has become an
\* edition.
C13_Witness ==
    \E denied \in denied_ids, id \in DOMAIN tokens.minted_editions : denied < id

\* C14 (as claimed): transfer_by_id(from, to, edition, amount) returns
\* CannotTransferZeroCarbonUnit when amount is 0; otherwise
\* InsufficientCarbonUnit when from holds less than amount of the edition (no
\* entry, no balance map or an edition that was never minted included);
\* otherwise it succeeds. It returns no other error.
C14_ByIdOutcome ==
    \A from \in Callers, to \in AccountIds, id \in TokenIds, amount \in Amounts :
        TransferTokenById(tokens, from, to, id, amount).result =
            IF amount = 0 THEN "CannotTransferZeroCarbonUnit"
            ELSE IF BalanceOf(tokens, from, id) < amount THEN "InsufficientCarbonUnit"
            ELSE "Ok"

\* C15: a successful transfer_by_id(from, to, edition, amount) with from # to
\* takes exactly amount off from's balance of the edition and adds exactly
\* amount to to's, changes no other (account, edition) balance, and removes
\* from's entry when amount is all from held, so that
\* get_account_balance_by_id(from, edition) then returns Ok(0); an entry that
\* keeps a rest stays.
C15_ByIdEffect ==
    \A from \in Callers, to \in AccountIds, id \in TokenIds, amount \in Amounts :
        LET r == TransferTokenById(tokens, from, to, id, amount)
        IN (r.result = "Ok" /\ from # to) =>
               /\ BalanceOf(r.tokens, from, id) = BalanceOf(tokens, from, id) - amount
               /\ BalanceOf(r.tokens, to, id) = BalanceOf(tokens, to, id) + amount
               /\ id \in DOMAIN r.tokens.balances[to]
               /\ \A a \in AccountIds, e \in TokenIds :
                      (e # id \/ a \notin {from, to}) =>
                          BalanceOf(r.tokens, a, e) = BalanceOf(tokens, a, e)
               /\ id \in DOMAIN r.tokens.balances[from] <=> BalanceOf(tokens, from, id) > amount
               /\ BalanceOf(tokens, from, id) = amount =>
                      GetAccountBalanceById(r.tokens, from, id) = [result |-> "Ok", value |-> 0]

\* C15 witness: two callers hold the same edition, which a transfer of a part
\* brought about, and a transfer of all one of them holds to the other, who
\* holds some already, succeeds.
C15_Witness ==
    \E from \in Callers, to \in Callers, id \in DOMAIN tokens.minted_editions :
        /\ from # to
        /\ BalanceOf(tokens, from, id) > 0
        /\ BalanceOf(tokens, to, id) > 0
        /\ TransferTokenById(tokens, from, to, id, BalanceOf(tokens, from, id)).result = "Ok"

\* C16 (as claimed): transfer_by_year(from, to, year, amount) with amount > 0
\* returns TokenNotFound whenever the year has no editions, whoever from is, and
\* returns InsufficientCarbonUnit only when the year has editions and from
\* holds less than amount of them.
C16_ByYearErrors ==
    \A from \in Callers, to \in AccountIds, year \in Years, amount \in Amounts \ {0} :
        \A r \in TransferTokenByYear(tokens, from, to, year, amount) :
            /\ year \notin DOMAIN tokens.year_mapping => r.result = "TokenNotFound"
            /\ r.result = "InsufficientCarbonUnit" =>
                   /\ year \in DOMAIN tokens.year_mapping
                   /\ YearHeld(tokens, from, year) < amount

\* C17 (as claimed): transfer_all(from, to) returns InsufficientCarbonUnit when
\* from has no balance map at all, and CannotTransferZeroCarbonUnit when from
\* has a balance map whose total is 0.
C17_TransferAllErrors ==
    \A from \in Callers, to \in AccountIds :
        \A r \in TransferTokenAll(tokens, from, to) :
            IF from \notin DOMAIN tokens.balances
            THEN r.result = "InsufficientCarbonUnit"
            ELSE GetAccountTotalBalance(tokens, from) = 0 =>
                     r.result = "CannotTransferZeroCarbonUnit"

\* C18: a successful transfer_all(from, to) with from # to returns exactly the
\* (edition, amount) pairs from held before the call, each once; it leaves from
\* with an empty balance map, so a total balance of 0; to's balance of every
\* edition is its balance before plus from's balance before; no third
\* account's balance changes.
C18_TransferAllEffect ==
    \A from \in Callers, to \in AccountIds :
        \A r \in TransferTokenAll(tokens, from, to) :
            (r.result = "Ok" /\ from # to) =>
                /\ Range(r.editions) =
                       {[id |-> id, amount |-> tokens.balances[from][id]] :
                           id \in DOMAIN tokens.balances[from]}
                /\ Len(r.editions) = Cardinality(DOMAIN tokens.balances[from])
                /\ r.tokens.balances[from] = EmptyMap
                /\ GetAccountTotalBalance(r.tokens, from) = 0
                /\ \A id \in TokenIds :
                       BalanceOf(r.tokens, to, id) =
                           BalanceOf(tokens, to, id) + BalanceOf(tokens, from, id)
                /\ DOMAIN r.tokens.balances[to] =
                       DOMAIN WithBalanceMap(tokens.balances, to)[to] \cup DOMAIN tokens.balances[from]
                /\ \A a \in AccountIds \ {from, to}, id \in TokenIds :
                       BalanceOf(r.tokens, a, id) = BalanceOf(tokens, a, id)

\* C18 witness: a caller holds two editions, one of which another account holds
\* too, and the caller's transfer_all to that account succeeds.
C18_Witness ==
    \E from \in Callers, to \in AccountIds :
        /\ from # to
        /\ Cardinality(DOMAIN WithBalanceMap(tokens.balances, from)[from]) = 2
        /\ \E id \in TokenIds : BalanceOf(tokens, from, id) > 0 /\ BalanceOf(tokens, to, id) > 0
        /\ \E r \in TransferTokenAll(tokens, from, to) : r.result = "Ok"

BookNumbered(book) ==
    /\ DOMAIN book.reports = 0..(book.next_retirement_id - 1)
    /\ \A id \in DOMAIN book.reports : book.reports[id].id = id
    /\ book.last_retirement_id =
           IF book.next_retirement_id = 0 THEN {} ELSE {book.next_retirement_id - 1}
    /\ \A account \in DOMAIN book.account_mapping :
           /\ \A i, j \in 1..Len(book.account_mapping[account]) :
                  i < j => book.account_mapping[account][i] < book.account_mapping[account][j]
           /\ Range(book.account_mapping[account]) =
                  {id \in DOMAIN book.reports : book.reports[id].beneficiary = account}
    /\ \A id \in DOMAIN book.reports : book.reports[id].beneficiary \in DOMAIN book.account_mapping

\* A step in which a retire call succeeded: an edition's retired amount grew.
Retired(id) ==
    /\ id \in DOMAIN tokens.minted_editions
    /\ tokens'.minted_editions[id].retired > tokens.minted_editions[id].retired

\* The step added one report, for caller's retirement of n of edition id.
Reported(caller, id, n) ==
    LET new == retirements.next_retirement_id
    IN /\ retirements'.next_retirement_id = new + 1
       /\ \A old \in DOMAIN retirements.reports : old < new
       /\ retirements'.reports =
              Insert(retirements.reports, new,
                     [id |-> new, beneficiary |-> caller, token_id |-> id, amount |-> n,
                      registry_id |-> tokens.minted_editions[id].registry_id])
       /\ retirements'.last_retirement_id = {new}
       /\ GetAccountReport(retirements', caller) =
              Append(GetAccountReport(retirements, caller), retirements'.reports[new])
       /\ \A a \in AccountIds \ {caller} :
              GetAccountReport(retirements', a) = GetAccountReport(retirements, a)

\* C20: every step in which a retire call succeeds adds exactly one report,
\* with the retired amount, the retired edition and the caller as beneficiary,
\* under the next id, above every earlier report's id, and appends it to the
\* caller's report index; every other step, a failed retire call included,
\* leaves the Book as it is, its id counter too; the report ids are 0, 1, 2,
\* ... without a gap.
C20_OneReportPerRetirement ==
    /\ [](BookNumbered(retirements))
    /\ [][IF \E id \in TokenIds : Retired(id)
          THEN \E caller \in Callers, id \in TokenIds :
                   /\ Retired(id)
                   /\ BalanceOf(tokens', caller, id) < BalanceOf(tokens, caller, id)
                   /\ Reported(caller, id,
                               tokens'.minted_editions[id].retired
                                   - tokens.minted_editions[id].retired)
          ELSE retirements' = retirements]_vars

\* C20 witness: two retirements have been reported, under the ids 0 and 1, both
\* in one account's index, and a retire call made now fails.
C20_Witness ==
    /\ retirements.next_retirement_id = 2
    /\ \E account \in Callers :
           /\ account \in DOMAIN retirements.account_mapping
           /\ retirements.account_mapping[account] = <<0, 1>>
           /\ retirements.reports[1].amount > 0
           /\ \E id \in TokenIds, n \in Amounts :
                  RetireTokenId(tokens, account, id, n).result # "Ok"

\* The retirement ids a caller can name: those the retirements can get, and one
\* more.
RetirementIds == 0..MaxRetirements

\* s is a prefix of t.
IsPrefix(s, t) == Len(s) <= Len(t) /\ \A i \in 1..Len(s) : s[i] = t[i]

\* What the queries of a Book answer: get_report_by_id finds exactly the ids
\* allocated so far, get_last_report finds the newest report or none when there
\* is none, get_account_report lists exactly the account's reports, none for an
\* account without a retirement.
BookAnswers(book) ==
    /\ \A id \in RetirementIds :
           GetReportById(book, id).result =
               IF id < book.next_retirement_id THEN "Ok" ELSE "RetirementReportNotFound"
    /\ \A id \in DOMAIN book.reports : GetReportById(book, id).value = {book.reports[id]}
    /\ GetLastReport(book) =
           IF book.next_retirement_id = 0
           THEN [result |-> "RetirementReportNotFound", value |-> {}]
           ELSE [result |-> "Ok", value |-> {book.reports[book.next_retirement_id - 1]}]
    /\ \A account \in AccountIds :
           /\ Range(GetAccountReport(book, account)) =
                  {book.reports[id] : id \in {i \in DOMAIN book.reports :
                                                 book.reports[i].beneficiary = account}}
           /\ Len(GetAccountReport(book, account)) =
                  Cardinality({i \in DOMAIN book.reports : book.reports[i].beneficiary = account})

\* C21: a report, once it exists, is returned unchanged by get_report in every
\* later state; every account's report list only grows at its end; get_report
\* fails with RetirementReportNotFound exactly for the ids never allocated;
\* get_last_report fails with RetirementReportNotFound iff there was no
\* retirement and returns the newest report otherwise; get_account_reports
\* lists exactly the account's reports, and nothing for an account without one.
C21_ReportsPermanent ==
    /\ [](BookAnswers(retirements))
    /\ [][/\ \A id \in DOMAIN retirements.reports :
                 GetReportById(retirements', id) = GetReportById(retirements, id)
          /\ \A account \in AccountIds :
                 IsPrefix(GetAccountReport(retirements, account),
                          GetAccountReport(retirements', account))]_vars

\* C21 witness: two accounts have a report each, the second account's being the
\* last report.
C21_Witness ==
    /\ retirements.next_retirement_id = 2
    /\ retirements.reports[0].beneficiary # retirements.reports[1].beneficiary
    /\ Len(GetAccountReport(retirements, retirements.reports[0].beneficiary)) = 1
    /\ GetLastReport(retirements).value = {retirements.reports[1]}

\* admit(id) on the registry c: it fails with CustodianAlreadyRegistered exactly
\* when id is admitted, and then changes nothing; otherwise it admits id and
\* leaves every other account as it was.
AdmitOutcome(c, id) ==
    LET r == AddCustodian(c, id)
    IN /\ r.result = IF Contains(c, id) THEN "CustodianAlreadyRegistered" ELSE "Ok"
       /\ r.result # "Ok" => r.custodians = c
       /\ r.result = "Ok" => Contains(r.custodians, id)
       /\ \A other \in AccountIds \ {id} : Contains(r.custodians, other) <=> Contains(c, other)

\* revoke(id) on the registry c: it fails with CustodianNotFound exactly when id
\* is not admitted, and then changes nothing; otherwise it revokes id and
\* leaves every other account as it was.
RevokeOutcome(c, id) ==
    LET r == RemoveCustodian(c, id)
    IN /\ r.result = IF Contains(c, id) THEN "Ok" ELSE "CustodianNotFound"
       /\ r.result # "Ok" => r.custodians = c
       /\ r.result = "Ok" => ~Contains(r.custodians, id)
       /\ \A other \in AccountIds \ {id} : Contains(r.custodians, other) <=> Contains(c, other)

\* C22: admit(A) fails with CustodianAlreadyRegistered iff A is admitted and
\* revoke(A) fails with CustodianNotFound iff A is not; a failed call changes
\* nothing and no call changes another account's record; A is admitted after a
\* successful admit, so that a second admit fails, and not admitted after a
\* successful revoke, so that a second revoke fails; and in every step an
\* account becomes admitted only by a successful admit of it and stops being
\* admitted only by a successful revoke of it, so that is_admitted(A) tells
\* which of the two succeeded last.
C22_AdmissionStateMachine ==
    /\ [](\A id \in AccountIds :
             /\ AdmitOutcome(custodians, id)
             /\ RevokeOutcome(custodians, id)
             /\ AdmitOutcome(AddCustodian(custodians, id).custodians, id)
             /\ RevokeOutcome(AddCustodian(custodians, id).custodians, id)
             /\ AdmitOutcome(RemoveCustodian(custodians, id).custodians, id)
             /\ RevokeOutcome(RemoveCustodian(custodians, id).custodians, id))
    /\ [][custodians' # custodians =>
              \E id \in AccountIds :
                  \/ /\ AddCustodian(custodians, id).result = "Ok"
                     /\ custodians' = AddCustodian(custodians, id).custodians
                     /\ Contains(custodians', id) /\ ~Contains(custodians, id)
                  \/ /\ RemoveCustodian(custodians, id).result = "Ok"
                     /\ custodians' = RemoveCustodian(custodians, id).custodians
                     /\ ~Contains(custodians', id) /\ Contains(custodians, id)]_vars

\* C22 witness: two accounts are admitted, so that a revoke of one has another
\* account's record to leave alone, and an admit of either fails.
C22_Witness ==
    /\ Cardinality(custodians) = 2
    /\ \A id \in custodians : AddCustodian(custodians, id).result = "CustodianAlreadyRegistered"
    /\ \E id \in AccountIds : RemoveCustodian(custodians, id).result = "CustodianNotFound"

\* The editions of a year that an account has an entry of, in the order of the
\* year's index.
RECURSIVE HeldOfYear(_, _)
HeldOfYear(token_balances, year_tokens) ==
    IF year_tokens = <<>> THEN <<>>
    ELSE IF Head(year_tokens) \in DOMAIN token_balances
    THEN <<Head(year_tokens)>> \o HeldOfYear(token_balances, Tail(year_tokens))
    ELSE HeldOfYear(token_balances, Tail(year_tokens))

\* C23: a successful transfer_by_year debits the editions from holds of the
\* year in the order of the year's index: the debited editions are the first
\* ones from holds in that order, every debited edition but the last is debited
\* by all from holds of it, and, with from # to, a drained edition's entry is
\* removed, the last edition keeps what was not debited and the editions behind
\* it are not touched; so at most one edition ends the call partly drained.
C23_OldestFirst ==
    \A from \in Callers, to \in AccountIds, year \in Years, amount \in Amounts :
        \A r \in TransferTokenByYear(tokens, from, to, year, amount) :
            r.result = "Ok" =>
                LET before == tokens.balances[from]
                    held == HeldOfYear(before, tokens.year_mapping[year])
                    n == Len(r.editions)
                IN /\ n >= 1
                   /\ IsPrefix([i \in 1..n |-> r.editions[i].id], held)
                   /\ \A i \in 1..(n - 1) : r.editions[i].amount = before[r.editions[i].id]
                   /\ r.editions[n].amount <= before[r.editions[n].id]
                   /\ from # to =>
                          /\ \A i \in 1..n :
                                 BalanceOf(r.tokens, from, r.editions[i].id) =
                                     before[r.editions[i].id] - r.editions[i].amount
                          /\ \A i \in 1..n :
                                 r.editions[i].id \in DOMAIN r.tokens.balances[from] <=>
                                     r.editions[i].amount < before[r.editions[i].id]
                          /\ \A id \in DOMAIN before \ {r.editions[i].id : i \in 1..n} :
                                 /\ id \in DOMAIN r.tokens.balances[from]
                                 /\ r.tokens.balances[from][id] = before[id]
                          /\ Cardinality({id \in DOMAIN before :
                                             /\ BalanceOf(r.tokens, from, id) > 0
                                             /\ BalanceOf(r.tokens, from, id) < before[id]}) <= 1

\* C23 witness: a caller holds two editions of a year, and a transfer_by_year
\* to another account succeeds that drains the first of the index and debits
\* the second.
C23_Witness ==
    \E from \in Callers, to \in AccountIds, year \in Years, amount \in Amounts :
        /\ from # to
        /\ \E r \in TransferTokenByYear(tokens, from, to, year, amount) :
               /\ r.result = "Ok"
               /\ Len(r.editions) = 2
               /\ r.editions[1].amount > 0
               /\ r.editions[2].amount > 0
               /\ r.editions[1].id = tokens.year_mapping[year][1]

\* The sum of the amounts of the pairs of a bundle that name the edition id.
RECURSIVE AskedOf(_, _)
AskedOf(params, id) ==
    IF params = <<>> THEN 0
    ELSE (IF Head(params).id = id THEN Head(params).amount ELSE 0) + AskedOf(Tail(params), id)

\* The Tracker after a transfer_by_id call for each pair of a bundle, in the
\* order of the bundle.
RECURSIVE EachById(_, _, _, _)
EachById(t, from, to, params) ==
    IF params = <<>> THEN t
    ELSE EachById(TransferTokenById(t, from, to, Head(params).id, Head(params).amount).tokens,
                  from, to, Tail(params))

\* C24: a successful transfer_compounded(from, to, editions) with from # to
\* takes off from's balance of each edition the sum of the amounts of the pairs
\* that name it and adds the same sum to to's balance, changes no other
\* balance, and leaves the Tracker that a transfer_by_id for each pair, in the
\* order of the bundle, leaves.
C24_CompoundedEffect ==
    \A from \in Callers, to \in AccountIds, params \in Bundles :
        LET r == TransferTokenCompounded(tokens, from, to, params)
        IN (r.result = "Ok" /\ from # to) =>
               /\ \A id \in TokenIds :
                      /\ BalanceOf(r.tokens, from, id) =
                             BalanceOf(tokens, from, id) - AskedOf(params, id)
                      /\ BalanceOf(r.tokens, to, id) =
                             BalanceOf(tokens, to, id) + AskedOf(params, id)
               /\ \A a \in AccountIds \ {from, to}, id \in TokenIds :
                      BalanceOf(r.tokens, a, id) = BalanceOf(tokens, a, id)
               /\ r.tokens = EachById(tokens, from, to, params)

\* C24 witness: a bundle of two pairs that name the same edition, and a bundle
\* of two pairs that name two editions, both succeed from a caller to another
\* account.
C24_Witness ==
    \E from \in Callers, to \in AccountIds, p1, p2 \in Bundles :
        /\ from # to
        /\ Len(p1) = 2 /\ p1[1].id = p1[2].id
        /\ Len(p2) = 2 /\ p2[1].id # p2[2].id
        /\ TransferTokenCompounded(tokens, from, to, p1).result = "Ok"
        /\ TransferTokenCompounded(tokens, from, to, p2).result = "Ok"

\* The registry references whose pending request is new in this step.
NewlyPending ==
    {registry_id \in DOMAIN tokens'.pending_mint_editions :
        \/ registry_id \notin DOMAIN tokens.pending_mint_editions
        \/ tokens'.pending_mint_editions[registry_id] # tokens.pending_mint_editions[registry_id]}

\* C25: a mint request is stored, and an edition id consumed, only by a call of
\* an account that is admitted when it calls: in every step that stores a
\* pending request or moves the id counter, the request's minter is in the
\* registry before the step, one request is stored and one id consumed; an
\* edition carries the minter of the request it was approved from; a step that
\* changes the registry leaves the pending requests as they are, and a pending
\* request can be approved or denied whether or not its minter is still
\* admitted.
C25_OnlyCustodiansRequest ==
    /\ [](\A registry_id \in DOMAIN tokens.pending_mint_editions :
             /\ ApprovePendingMint(tokens, registry_id).result = "Ok"
             /\ DenyPendingMint(tokens, registry_id).result = "Ok")
    /\ [][/\ (NewlyPending # {} \/ tokens'.next_token_id # tokens.next_token_id) =>
                 \E registry_id \in RegistryIds :
                     /\ NewlyPending = {registry_id}
                     /\ tokens'.pending_mint_editions[registry_id].detail.minter \in custodians
                     /\ tokens'.pending_mint_editions[registry_id].detail.id = tokens.next_token_id
                     /\ tokens'.next_token_id = tokens.next_token_id + 1
          /\ \A id \in DOMAIN tokens'.minted_editions \ DOMAIN tokens.minted_editions :
                 \E registry_id \in DOMAIN tokens.pending_mint_editions :
                     tokens'.minted_editions[id] = tokens.pending_mint_editions[registry_id].detail
          /\ custodians' # custodians => tokens' = tokens]_vars

\* C25 witness: a request is pending whose minter has been revoked since, and
\* an edition exists whose minter is not admitted either.
C25_Witness ==
    /\ \E registry_id \in DOMAIN tokens.pending_mint_editions :
           tokens.pending_mint_editions[registry_id].detail.minter \notin custodians
    /\ \E id \in DOMAIN tokens.minted_editions :
           tokens.minted_editions[id].minter \notin custodians

\* The sum of all accounts' balances of an edition, the blackhole's included.
BalanceSum(t, id) == SumOver([a \in AccountIds |-> BalanceOf(t, a, id)], AccountIds)

\* Every edition's balances sum to its supply + retired, and no balance is held
\* of an id that is not an edition.
BalancesConserved(t) ==
    /\ \A id \in DOMAIN t.minted_editions :
           BalanceSum(t, id) = t.minted_editions[id].supply + t.minted_editions[id].retired
    /\ \A a \in DOMAIN t.balances : DOMAIN t.balances[a] \subseteq DOMAIN t.minted_editions

\* C26: in every reachable state, for every minted edition, the balances of all
\* accounts, the blackhole's included, sum to supply + retired, the amount
\* minted at approval; and so they do after every transfer_all, transfer_by_id,
\* transfer_by_year, transfer_compounded and retire call made there, whatever
\* it returns.
C26_BalancesConserved ==
    /\ BalancesConserved(tokens)
    /\ \A id \in DOMAIN tokens.minted_editions : BalanceSum(tokens, id) = approved_amount[id]
    /\ \A from \in Callers, to \in AccountIds :
           /\ \A r \in TransferTokenAll(tokens, from, to) : BalancesConserved(r.tokens)
           /\ \A id \in TokenIds, amount \in Amounts :
                  /\ BalancesConserved(TransferTokenById(tokens, from, to, id, amount).tokens)
                  /\ BalancesConserved(RetireTokenId(tokens, from, id, amount).tokens)
           /\ \A year \in Years, amount \in Amounts :
                  \A r \in TransferTokenByYear(tokens, from, to, year, amount) :
                      BalancesConserved(r.tokens)
           /\ \A params \in Bundles :
                  BalancesConserved(TransferTokenCompounded(tokens, from, to, params).tokens)

\* C26 witness: one edition is held in part by a caller and in part, retired,
\* by the blackhole, and another edition by two callers.
C26_Witness ==
    \E id1, id2 \in DOMAIN tokens.minted_editions :
        /\ id1 # id2
        /\ tokens.minted_editions[id1].retired > 0
        /\ BalanceOf(tokens, Blackhole, id1) > 0
        /\ \E a \in Callers : BalanceOf(tokens, a, id1) > 0
        /\ \A a \in Callers : BalanceOf(tokens, a, id2) > 0

\* The blackhole holds, of every edition, at least what was retired of it.
SinkCoversRetired(t) ==
    \A id \in DOMAIN t.minted_editions :
        BalanceOf(t, Blackhole, id) >= t.minted_editions[id].retired

\* The blackhole's balance of no id is lower in u than in t.
SinkKept(t, u) == \A id \in TokenIds : BalanceOf(u, Blackhole, id) >= BalanceOf(t, Blackhole, id)

\* C27: with callers other than the blackhole, the blackhole's balance of each
\* edition never decreases in a step and is always at least the edition's
\* retired amount; the same holds for the outcome of every transfer and retire
\* call a caller can make in a reachable state.
C27_BlackholeIsSink ==
    /\ [](/\ SinkCoversRetired(tokens)
          /\ \A from \in Callers, to \in AccountIds :
                 /\ \A r \in TransferTokenAll(tokens, from, to) :
                        SinkKept(tokens, r.tokens) /\ SinkCoversRetired(r.tokens)
                 /\ \A id \in TokenIds, amount \in Amounts :
                        /\ SinkKept(tokens, TransferTokenById(tokens, from, to, id, amount).tokens)
                        /\ SinkKept(tokens, RetireTokenId(tokens, from, id, amount).tokens)
                        /\ SinkCoversRetired(RetireTokenId(tokens, from, id, amount).tokens)
                 /\ \A year \in Years, amount \in Amounts :
                        \A r \in TransferTokenByYear(tokens, from, to, year, amount) :
                            SinkKept(tokens, r.tokens)
                 /\ \A params \in Bundles :
                        SinkKept(tokens, TransferTokenCompounded(tokens, from, to, params).tokens))
    /\ [][SinkKept(tokens, tokens')]_vars

\* C27 witness: the blackhole holds more of an edition than was retired of it,
\* and some of it was retired.
C27_Witness ==
    \E id \in DOMAIN tokens.minted_editions :
        /\ tokens.minted_editions[id].retired > 0
        /\ BalanceOf(tokens, Blackhole, id) > tokens.minted_editions[id].retired

\* Tracker::get_total_retired in CarbonUnit width: the outcomes of the fold
\* `total_retired += detail.retired` over the editions.
GetTotalRetiredU64(t) == U64Sum(GetTotalRetired(t))

\* The amounts of the retirement reports that name an edition in ids, summed.
ReportedAmount(book, ids) ==
    LET named == {n \in DOMAIN book.reports : book.reports[n].token_id \in ids}
    IN SumOver([n \in named |-> book.reports[n].amount], named)

\* For each edition the reports naming it sum to its retired field.
ReportsMatchRetired ==
    \A id \in DOMAIN tokens.minted_editions :
        ReportedAmount(retirements, {id}) = tokens.minted_editions[id].retired

\* C28: in every reachable state, for each edition the amounts of the
\* retirement reports naming it sum to the edition's retired field, and
\* get_total_retired returns the sum of the amounts of all reports.
C28_ReportsAccountForRetired ==
    /\ ReportsMatchRetired
    /\ \A total \in GetTotalRetiredU64(tokens) :
           /\ ~total.panic
           /\ total.value = ReportedAmount(retirements, TokenIds)

\* How many places of a sequence hold x.
Occurrences(s, x) == Cardinality({i \in 1..Len(s) : s[i] = x})

\* Each minted edition is once in the year index, in the sequence of its own
\* year, and the index holds no id that is pending or was denied.
YearIndexConsistent ==
    /\ \A id \in DOMAIN tokens.minted_editions, year \in Years :
           Occurrences(YearIndex(tokens, year), id) =
               IF tokens.minted_editions[id].year = year THEN 1 ELSE 0
    /\ \A year \in DOMAIN tokens.year_mapping :
           /\ Range(tokens.year_mapping[year]) \subseteq DOMAIN tokens.minted_editions
           /\ Range(tokens.year_mapping[year]) \cap denied_ids = {}
           /\ \A registry_id \in DOMAIN tokens.pending_mint_editions :
                  tokens.pending_mint_editions[registry_id].detail.id
                      \notin Range(tokens.year_mapping[year])

\* The editions of a year.
EditionsOfYear(t, year) == {id \in DOMAIN t.minted_editions : t.minted_editions[id].year = year}

\* C29: in every reachable state each minted edition id is exactly once in the
\* year index, in the sequence of its own year, and no pending or denied id is
\* in any sequence; get_supply_by_year(y) returns the sum of supply over the
\* minted editions of year y, and get_total_supply returns the sum of
\* get_supply_by_year over the years with editions.
C29_YearIndexConsistent ==
    /\ YearIndexConsistent
    /\ \A year \in DOMAIN tokens.year_mapping :
           \A s \in GetSupplyByYear(tokens, year) :
               /\ s.result = "Ok"
               /\ ~s.panic
               /\ s.value = SupplySum(tokens, EditionsOfYear(tokens, year))
    /\ \A total \in GetTotalSupplyU64(tokens) :
           /\ ~total.panic
           /\ total.value =
                  SumOver([year \in DOMAIN tokens.year_mapping |->
                              SupplySum(tokens, EditionsOfYear(tokens, year))],
                          DOMAIN tokens.year_mapping)


\* The sums of C29 without the CarbonUnit width: the loop of get_supply_by_year
\* adds the supply of the year's editions, and the years' sums add up to the
\* sum get_total_supply folds.
YearSuppliesAddUp ==
    /\ \A year \in DOMAIN tokens.year_mapping :
           YearSupply(tokens, tokens.year_mapping[year]) =
               SupplySum(tokens, EditionsOfYear(tokens, year))
    /\ GetTotalSupply(tokens) =
           SumOver([year \in DOMAIN tokens.year_mapping |->
                       YearSupply(tokens, tokens.year_mapping[year])],
                   DOMAIN tokens.year_mapping)

\* C30: a successful transfer_by_id, transfer_by_year, transfer_all or
\* transfer_compounded whose target is the debited account leaves the
\* balances of every account, entries and amounts, as they were.
C30_SelfTransferNoOp ==
    \A from \in Callers :
        /\ \A r \in TransferTokenAll(tokens, from, from) :
               r.result = "Ok" => r.tokens.balances = tokens.balances
        /\ \A id \in TokenIds, amount \in Amounts :
               LET r == TransferTokenById(tokens, from, from, id, amount)
               IN r.result = "Ok" => r.tokens.balances = tokens.balances
        /\ \A year \in Years, amount \in Amounts :
               \A r \in TransferTokenByYear(tokens, from, from, year, amount) :
                   r.result = "Ok" => r.tokens.balances = tokens.balances
        /\ \A params \in Bundles :
               LET r == TransferTokenCompounded(tokens, from, from, params)
               IN r.result = "Ok" => r.tokens.balances = tokens.balances


\* C30 witness: a caller holding two editions of one year can transfer to
\* itself by year, draining both, all it holds, one edition in full by id,
\* and a bundle of both editions.
C30_Witness ==
    \E from \in Callers, year \in Years :
        /\ from \in DOMAIN tokens.balances
        /\ Cardinality(DOMAIN tokens.balances[from]) = 2
        /\ \A id \in DOMAIN tokens.balances[from] :
               /\ tokens.minted_editions[id].year = year
               /\ tokens.balances[from][id] > 0
               /\ TransferTokenById(tokens, from, from, id, tokens.balances[from][id]).result = "Ok"
        /\ \E r \in TransferTokenByYear(tokens, from, from, year, MaxAmount) : r.result = "Ok"
        /\ \E r \in TransferTokenAll(tokens, from, from) : r.result = "Ok"
        /\ \E params \in Bundles :
               /\ Len(params) = 2
               /\ params[1].id # params[2].id
               /\ TransferTokenCompounded(tokens, from, from, params).result = "Ok"


\* Every balance entry of a Tracker fits CarbonUnit.
CreditsFit(t) ==
    \A a \in DOMAIN t.balances : \A id \in DOMAIN t.balances[a] : t.balances[a][id] <= CarbonUnitMax

\* C31: in every reachable state every balance credit stays within the
\* CarbonUnit range, and the sums that get_total_supply, get_total_retired,
\* get_supply_by_year and get_account_total_balance compute, the latter also
\* inside transfer_all, never exceed the maximum CarbonUnit value.
C31_NoOverflow ==
    /\ CreditsFit(tokens)
    /\ GetTotalSupply(tokens) <= CarbonUnitMax
    /\ GetTotalRetired(tokens) <= CarbonUnitMax
    /\ \A year \in DOMAIN tokens.year_mapping :
           YearSupply(tokens, tokens.year_mapping[year]) <= CarbonUnitMax
    /\ \A a \in AccountIds : GetAccountTotalBalance(tokens, a) <= CarbonUnitMax
    /\ \A from \in Callers, to \in AccountIds :
           \A r \in TransferTokenAll(tokens, from, to) : r.result # "Panic"


\* The credits of C31 alone: every balance entry fits CarbonUnit in every
\* reachable state and after every transfer and retire call made there.
CreditsStayInRange ==
    /\ CreditsFit(tokens)
    /\ \A from \in Callers, to \in AccountIds :
           /\ \A r \in TransferTokenAll(tokens, from, to) : CreditsFit(r.tokens)
           /\ \A id \in TokenIds, amount \in Amounts :
                  /\ CreditsFit(TransferTokenById(tokens, from, to, id, amount).tokens)
                  /\ CreditsFit(RetireTokenId(tokens, from, id, amount).tokens)
           /\ \A year \in Years, amount \in Amounts :
                  \A r \in TransferTokenByYear(tokens, from, to, year, amount) :
                      CreditsFit(r.tokens)

====
